---- MODULE Spec2Model ----
(***************************************************************************)
(* Model of assets/hooks/nightwatch_hook.py: one invocation of the hook.   *)
(* main() reads one payload from stdin, resolves the terminal identity,    *)
(* builds the state record and hands it to send_to_app, which delivers it  *)
(* over a Unix stream socket.  The environment (stdin contents, the ps     *)
(* utility, the socket endpoint) is nondeterministic.                      *)
(***************************************************************************)
EXTENDS Integers, Sequences, FiniteSets, TLC

\* Python's None and a present value; optional values are <<>> or <<v>>.
None == <<>>
Some(x) == <<x>>

\* Bound of the model: os.times().elapsed * 1000 ranges over 0..MaxClock.
MaxClock == 1

\* Module constants of the hook.
SOCKET_PATH == "/tmp/nightwatch.sock"
TIMEOUT_SECONDS == 2

(***************************************************************************)
(* Exceptions: the classes the hook's except clauses name and the ones the *)
(* library calls raise, with Python's subclass relation.                   *)
(***************************************************************************)
Parents(c) ==
    CASE c = "JSONDecodeError" -> {"ValueError"}
      [] c = "UnicodeDecodeError" -> {"ValueError"}
      [] c = "FileNotFoundError" -> {"OSError"}
      [] c = "PermissionError" -> {"OSError"}
      [] c = "ConnectionRefusedError" -> {"OSError"}
      [] c = "BrokenPipeError" -> {"OSError"}
      [] c = "socket.timeout" -> {"OSError"}
      [] c = "TimeoutExpired" -> {"SubprocessError"}
      [] OTHER -> {}

\* isinstance(exc, cls): the hierarchy above is at most one level deep
IsInstance(exc, cls) == exc = cls \/ cls \in Parents(exc)

\* an except clause naming the classes handled catches exc
Catches(handled, exc) == \E c \in handled : IsInstance(exc, c)

(***************************************************************************)
(* The stdin payload.                                                      *)
(***************************************************************************)
EventKinds == {"SessionStart", "SessionEnd", "PreToolUse", "PostToolUse",
               "UserPromptSubmit", "Stop"}

Keys == {"session_id", "hook_event_name", "cwd", "tool_name"}

KeyVals(k) ==
    CASE k = "session_id" -> {"abc"}
      [] k = "hook_event_name" -> EventKinds \cup {"Notification"}
      [] k = "cwd" -> {"/tmp"}
      [] k = "tool_name" -> {"Bash"}

AllVals == UNION {KeyVals(k) : k \in Keys}

\* JSON objects with any subset of the four keys the hook reads
Objects == UNION {{f \in [S -> AllVals] : \A k \in S : f[k] \in KeyVals(k)} : S \in SUBSET Keys}

EmptyObj == [k \in {} |-> "abc"]

Payloads ==
    {[form |-> fm, obj |-> EmptyObj] :
        fm \in {"text_not_json", "empty", "invalid_bytes", "json_list", "json_string", "json_number"}}
    \cup {[form |-> "json_object", obj |-> o] : o \in Objects}

\* sys.stdin's error handler depends on the locale the host starts the hook in
StdinErrorModes == {"strict", "surrogateescape"}

\* json.load(sys.stdin): sys.stdin.read() decodes the bytes, json.loads parses
JsonLoad(p, errors) ==
    CASE p.form = "invalid_bytes" /\ errors = "strict" ->
            [exc |-> Some("UnicodeDecodeError"), type |-> "none", obj |-> EmptyObj]
      [] p.form \in {"invalid_bytes", "text_not_json", "empty"} ->
            [exc |-> Some("JSONDecodeError"), type |-> "none", obj |-> EmptyObj]
      [] p.form = "json_list" -> [exc |-> None, type |-> "list", obj |-> EmptyObj]
      [] p.form = "json_string" -> [exc |-> None, type |-> "str", obj |-> EmptyObj]
      [] p.form = "json_number" -> [exc |-> None, type |-> "int", obj |-> EmptyObj]
      [] OTHER -> [exc |-> None, type |-> "dict", obj |-> p.obj]

\* dict.get(key, default)
DictGet(d, k, default) == IF k \in DOMAIN d THEN d[k] ELSE default

(***************************************************************************)
(* get_terminal_pid: the ps query and the parse of its output.             *)
(***************************************************************************)
Header == <<"PID", "PPID", "TTY", "COMMAND">>

\* a line of ps output is the sequence of its whitespace-separated tokens;
\* a blank line is <<>>
PsStdouts ==
    { <<>>,
      <<Header>>,
      <<Header, <<>>>>,
      <<Header, <<"4242">>>>,
      <<Header, <<"4242", "1">>>>,
      <<Header, <<"4242", "abc">>>>,
      <<Header, <<"4242", "1", "ttys001">>>>,
      <<Header, <<"4242", "1", "ttys001", "claude">>, <<>>>>,
      <<Header, <<"4242", "abc", "ttys001", "claude">>>>,
      <<Header, <<"4242", "1", "??", "claude", "--resume">>>> }

\* what subprocess.run can do: fail to start ps, time out, fail to decode
\* the output as text, or complete with a return code and stdout
PsResults ==
    {[outcome |-> o, returncode |-> 0, stdout |-> <<>>] :
        o \in {"not_found", "permission_denied", "timeout", "undecodable"}}
    \cup {[outcome |-> "completed", returncode |-> 1, stdout |-> so] :
            so \in {<<>>, <<Header>>, <<Header, <<"4242", "1", "ttys001", "claude">>>>}}
    \cup {[outcome |-> "completed", returncode |-> 0, stdout |-> so] : so \in PsStdouts}

\* str.strip() then split('\n'): leading and trailing blank lines go, and
\* the split of an empty string is one empty line
RECURSIVE LStrip(_)
LStrip(ls) == IF ls # <<>> /\ Head(ls) = <<>> THEN LStrip(Tail(ls)) ELSE ls

RECURSIVE RStrip(_)
RStrip(ls) == IF ls # <<>> /\ ls[Len(ls)] = <<>> THEN RStrip(SubSeq(ls, 1, Len(ls) - 1)) ELSE ls

StripSplitLines(stdout) ==
    LET s == RStrip(LStrip(stdout)) IN IF s = <<>> THEN << <<>> >> ELSE s

\* line.split(None, maxsplit): at most maxsplit + 1 parts, the last one the
\* unsplit remainder
SplitMax(line, maxsplit) ==
    IF Len(line) <= maxsplit + 1 THEN [i \in 1..Len(line) |-> Some(line[i])]
    ELSE [i \in 1..(maxsplit + 1) |->
            IF i <= maxsplit THEN Some(line[i]) ELSE SubSeq(line, i, Len(line))]

\* int(text)
IntTexts == {"1", "4242"}
IsIntText(t) == t \in IntTexts
ParseInt(t) == CASE t = "1" -> 1 [] t = "4242" -> 4242

\* variant: the identity is parsed only from a line that has all its columns
ParseIdentity_Wholesale(ppid, parts) ==
    IF Len(parts) > 1 /\ ~IsIntText(parts[2][1])
    THEN [exc |-> Some("ValueError"), pid |-> None, ppid |-> None, tty |-> None]
    ELSE IF Len(parts) > 2
    THEN [exc |-> None, pid |-> Some(ppid), ppid |-> Some(ParseInt(parts[2][1])),
          tty |-> Some(parts[3][1])]
    ELSE [exc |-> None, pid |-> Some(ppid), ppid |-> None, tty |-> None]

\* the dict literal of lines 41-45; parts is the list of line 40 (1-based here)
ParseIdentity(ppid, parts) ==
    IF Len(parts) > 1 /\ ~IsIntText(parts[2][1])
    THEN [exc |-> Some("ValueError"), pid |-> None, ppid |-> None, tty |-> None]
    ELSE [exc |-> None,
          pid |-> Some(ppid),
          ppid |-> IF Len(parts) > 1 THEN Some(ParseInt(parts[2][1])) ELSE None,
          tty |-> IF Len(parts) > 2 THEN Some(parts[3][1]) ELSE None]

Fallback(ppid) == [exc |-> None, pid |-> Some(ppid), ppid |-> None, tty |-> None]

\* the exception subprocess.run raises, if any
RunRaises(ps) ==
    CASE ps.outcome = "not_found" -> Some("FileNotFoundError")
      [] ps.outcome = "permission_denied" -> Some("PermissionError")
      [] ps.outcome = "timeout" -> Some("TimeoutExpired")
      [] ps.outcome = "undecodable" -> Some("UnicodeDecodeError")
      [] OTHER -> None

\* the except clause of line 46
ResolverHandled == {"TimeoutExpired", "ValueError", "IndexError"}

\* the try body of lines 28-45: an exception, a returned dict, or fall through
ResolverTry(ppid, ps) ==
    IF RunRaises(ps) # None
    THEN [exc |-> RunRaises(ps), pid |-> None, ppid |-> None, tty |-> None, returned |-> FALSE]
    ELSE IF ps.returncode = 0 /\ Len(StripSplitLines(ps.stdout)) > 1
    THEN LET r == ParseIdentity(ppid, SplitMax(StripSplitLines(ps.stdout)[2], 3))
         IN [exc |-> r.exc, pid |-> r.pid, ppid |-> r.ppid, tty |-> r.tty,
             returned |-> r.exc = None]
    ELSE [exc |-> None, pid |-> None, ppid |-> None, tty |-> None, returned |-> FALSE]

\* get_terminal_pid(): exc is the exception that escapes it, if any
GetTerminalPid(ppid, ps) ==
    LET t == ResolverTry(ppid, ps) IN
    IF t.returned THEN [exc |-> None, pid |-> t.pid, ppid |-> t.ppid, tty |-> t.tty]
    ELSE IF t.exc # None /\ ~Catches(ResolverHandled, t.exc[1])
    THEN [exc |-> t.exc, pid |-> None, ppid |-> None, tty |-> None]
    ELSE Fallback(ppid)

(***************************************************************************)
(* get_tty and the state record built by main.                             *)
(***************************************************************************)
\* os.ttyname(sys.stdin.fileno()): a device path, or OSError when stdin is
\* not a terminal
TtyLookups == {[exc |-> None, path |-> "/dev/ttys003"],
               [exc |-> Some("OSError"), path |-> ""]}

TtyHandled == {"OSError", "AttributeError"}

GetTty(l) ==
    IF l.exc = None THEN [exc |-> None, tty |-> Some(l.path)]
    ELSE IF Catches(TtyHandled, l.exc[1]) THEN [exc |-> None, tty |-> None]
    ELSE [exc |-> l.exc, tty |-> None]

\* truth value of an optional string
Truthy(o) == o # None /\ o # Some("")

\* variant: the operands of the or are swapped
TtyField_IdentityFirst(tty, info) == IF Truthy(info.tty) THEN info.tty ELSE tty

\* tty or terminal_info.get('tty')
TtyField(tty, info) == IF Truthy(tty) THEN tty ELSE info.tty

\* the dict literal of lines 83-91
BaseState(f, timestamp, info, tty) ==
    [session_id |-> f.session_id,
     cwd |-> f.cwd,
     event |-> f.event,
     timestamp |-> timestamp,
     pid |-> info.pid,
     ppid |-> info.ppid,
     tty |-> TtyField(tty, info)]

\* variant: the Stop branch sets the status of the default branch
EventFields_StopActive(event, tool_name) ==
    IF event = "SessionStart" THEN [status |-> "started"]
    ELSE IF event = "SessionEnd" THEN [status |-> "ended"]
    ELSE IF event = "PreToolUse" THEN [status |-> "active", tool |-> tool_name]
    ELSE IF event = "PostToolUse" THEN [status |-> "active", tool |-> tool_name]
    ELSE IF event = "UserPromptSubmit" THEN [status |-> "active", user_input |-> TRUE]
    ELSE IF event = "Stop" THEN [status |-> "active"]
    ELSE [status |-> "active"]

\* variant: the tool is copied whenever the payload carries one
EventFields_ToolWhenPresent(event, tool_name) ==
    IF event = "SessionStart" THEN [status |-> "started"]
    ELSE IF event = "SessionEnd" THEN [status |-> "ended"]
    ELSE IF event = "PreToolUse" THEN [status |-> "active", tool |-> tool_name]
    ELSE IF event = "PostToolUse" THEN [status |-> "active", tool |-> tool_name]
    ELSE IF event = "UserPromptSubmit" THEN [status |-> "active", user_input |-> TRUE]
    ELSE IF event = "Stop" THEN [status |-> "idle"]
    ELSE IF tool_name # None THEN [status |-> "active", tool |-> tool_name]
    ELSE [status |-> "active"]

\* the if/elif chain of lines 94-117: the keys it adds to state
EventFields(event, tool_name) ==
    IF event = "SessionStart" THEN [status |-> "started"]
    ELSE IF event = "SessionEnd" THEN [status |-> "ended"]
    ELSE IF event = "PreToolUse" THEN [status |-> "active", tool |-> tool_name]
    ELSE IF event = "PostToolUse" THEN [status |-> "active", tool |-> tool_name]
    ELSE IF event = "UserPromptSubmit" THEN [status |-> "active", user_input |-> TRUE]
    ELSE IF event = "Stop" THEN [status |-> "idle"]
    ELSE [status |-> "active"]

BuildRecord(f, timestamp, info, tty) ==
    EventFields(f.event, f.tool_name) @@ BaseState(f, timestamp, info, tty)

\* lines 73-76
ExtractFields(d) ==
    [session_id |-> DictGet(d, "session_id", "unknown"),
     event |-> DictGet(d, "hook_event_name", ""),
     cwd |-> DictGet(d, "cwd", ""),
     tool_name |-> IF "tool_name" \in DOMAIN d THEN Some(d["tool_name"]) ELSE None]

(***************************************************************************)
(* send_to_app.                                                            *)
(***************************************************************************)
\* json.dumps(state).encode() + b'\n': the document, then one newline byte
Encode(st) == <<[kind |-> "json", doc |-> Some(st)], [kind |-> "newline", doc |-> None]>>

\* what a sendall that fails may already have put on the wire
PartialWrites(st) == {<<>>, <<[kind |-> "partial", doc |-> Some(st)]>>}

\* variant: the except clause names only the refused connection
SendHandled_RefusedOnly == {"ConnectionRefusedError"}

\* the except clause of line 60; socket.error is an alias of OSError
SendHandled == {"OSError"}

SocketErrors == {"OSError"}
ConnectErrors == {"FileNotFoundError", "ConnectionRefusedError", "socket.timeout", "PermissionError"}
SendallErrors == {"BrokenPipeError", "socket.timeout"}
CloseErrors == {"OSError"}

\* variant: the except branch returns True as well
ReturnValue_AlwaysTrue(path) == TRUE

\* return True of line 59, return False of line 62
ReturnValue(path) == path = "try"

ClientStates == {"NotCalled", "Idle", "Connecting", "Connected", "Closed", "Failed"}

VARIABLES
    stdin,          \* the payload the host wrote to standard input
    stdinErrors,    \* the error handler of sys.stdin
    ttyLookup,      \* what os.ttyname does for standard input
    hookPpid,       \* os.getppid()
    pc,             \* position of main
    fields,         \* session_id, event, cwd, tool_name of lines 73-76
    psResult,       \* what subprocess.run did, once get_terminal_pid ran
    terminal_info,  \* the dict get_terminal_pid returned
    state,          \* the state dict handed to send_to_app
    sendCalls,      \* calls of send_to_app
    socketsCreated, \* sockets created by send_to_app
    connectAttempts,\* calls of sock.connect
    cstate,         \* state of the delivery client
    payloadWritten, \* sendall returned
    wire,           \* bytes the endpoint received
    sendResult,     \* return value of send_to_app
    sendRaised,     \* exception that escaped send_to_app
    uncaught,       \* exception that escaped main
    exitCode        \* exit status of the process

vars == <<stdin, stdinErrors, ttyLookup, hookPpid, pc, fields, psResult,
          terminal_info, state, sendCalls, socketsCreated, connectAttempts,
          cstate, payloadWritten, wire, sendResult, sendRaised, uncaught, exitCode>>

env == <<stdin, stdinErrors, ttyLookup, hookPpid>>
client == <<socketsCreated, connectAttempts, cstate, payloadWritten, wire,
            sendResult, sendRaised>>

Init ==
    /\ stdin \in Payloads
    /\ stdinErrors \in StdinErrorModes
    /\ ttyLookup \in TtyLookups
    /\ hookPpid = 4242
    /\ pc = "start"
    /\ fields = None
    /\ psResult = None
    /\ terminal_info = None
    /\ state = None
    /\ sendCalls = 0
    /\ socketsCreated = 0
    /\ connectAttempts = 0
    /\ cstate = "NotCalled"
    /\ payloadWritten = FALSE
    /\ wire = <<>>
    /\ sendResult = None
    /\ sendRaised = None
    /\ uncaught = None
    /\ exitCode = None

\* an exception nobody catches: traceback and exit status 1
Crash(exc) ==
    /\ pc' = "done"
    /\ uncaught' = Some(exc)
    /\ exitCode' = Some(1)

\* sys.exit(0)
SysExit0 ==
    /\ pc' = "done"
    /\ exitCode' = Some(0)
    /\ UNCHANGED uncaught

\* main, lines 66-76: json.load, its except clause, the four data.get calls
ReadInput ==
    /\ pc = "start"
    /\ LET r == JsonLoad(stdin, stdinErrors) IN
        IF r.exc # None
        THEN /\ IF Catches({"JSONDecodeError"}, r.exc[1]) THEN SysExit0 ELSE Crash(r.exc[1])
             /\ UNCHANGED fields
        ELSE IF r.type # "dict"
        THEN Crash("AttributeError") /\ UNCHANGED fields
        ELSE /\ fields' = Some(ExtractFields(r.obj))
             /\ pc' = "resolve"
             /\ UNCHANGED <<uncaught, exitCode>>
    /\ UNCHANGED <<env, psResult, terminal_info, state, sendCalls, client>>

\* main, line 79: the call of get_terminal_pid
ResolveIdentity ==
    /\ pc = "resolve"
    /\ \E ps \in PsResults :
        LET r == GetTerminalPid(hookPpid, ps) IN
        /\ psResult' = Some(ps)
        /\ IF r.exc # None
           THEN Crash(r.exc[1]) /\ UNCHANGED terminal_info
           ELSE /\ terminal_info' = Some(r)
                /\ pc' = "build"
                /\ UNCHANGED <<uncaught, exitCode>>
    /\ UNCHANGED <<env, fields, state, sendCalls, client>>

\* main, lines 80-120: get_tty, the state dict, the call of send_to_app
BuildState ==
    /\ pc = "build"
    /\ LET t == GetTty(ttyLookup) IN
        IF t.exc # None
        THEN /\ Crash(t.exc[1])
             /\ UNCHANGED <<state, sendCalls, cstate>>
        ELSE \E timestamp \in 0..MaxClock :
             /\ state' = Some(BuildRecord(fields[1], timestamp, terminal_info[1], t.tty))
             /\ sendCalls' = sendCalls + 1
             /\ cstate' = "Idle"
             /\ pc' = "send"
             /\ UNCHANGED <<uncaught, exitCode>>
    /\ UNCHANGED <<env, fields, psResult, terminal_info, socketsCreated,
                   connectAttempts, payloadWritten, wire, sendResult, sendRaised>>

\* an exception inside the try of send_to_app: the except clause returns
\* False; an exception it does not name escapes to main and from there
SendFails(exc) ==
    /\ cstate' = "Failed"
    /\ IF Catches(SendHandled, exc)
       THEN /\ sendResult' = Some(ReturnValue("except"))
            /\ pc' = "exit"
            /\ UNCHANGED <<sendRaised, uncaught, exitCode>>
       ELSE /\ sendRaised' = Some(exc)
            /\ Crash(exc)
            /\ UNCHANGED sendResult

\* send_to_app, lines 54-55: socket.socket and settimeout
SocketCreate ==
    /\ pc = "send" /\ cstate = "Idle"
    /\ \/ /\ cstate' = "Connecting"
          /\ socketsCreated' = socketsCreated + 1
          /\ UNCHANGED <<pc, sendResult, sendRaised, uncaught, exitCode>>
       \/ \E exc \in SocketErrors : SendFails(exc) /\ UNCHANGED socketsCreated
    /\ UNCHANGED <<env, fields, psResult, terminal_info, state, sendCalls,
                   connectAttempts, payloadWritten, wire>>

\* send_to_app, line 56: sock.connect(SOCKET_PATH)
Connect ==
    /\ pc = "send" /\ cstate = "Connecting"
    /\ connectAttempts' = connectAttempts + 1
    /\ \/ /\ cstate' = "Connected"
          /\ UNCHANGED <<pc, sendResult, sendRaised, uncaught, exitCode>>
       \/ \E exc \in ConnectErrors : SendFails(exc)
    /\ UNCHANGED <<env, fields, psResult, terminal_info, state, sendCalls,
                   socketsCreated, payloadWritten, wire>>

\* send_to_app, line 57: sock.sendall
SendAll ==
    /\ pc = "send" /\ cstate = "Connected" /\ ~payloadWritten
    /\ \/ /\ wire' = wire \o Encode(state[1])
          /\ payloadWritten' = TRUE
          /\ UNCHANGED <<pc, cstate, sendResult, sendRaised, uncaught, exitCode>>
       \/ /\ \E part \in PartialWrites(state[1]) : wire' = wire \o part
          /\ \E exc \in SendallErrors : SendFails(exc)
          /\ UNCHANGED payloadWritten
    /\ UNCHANGED <<env, fields, psResult, terminal_info, state, sendCalls,
                   socketsCreated, connectAttempts>>

\* send_to_app, lines 58-59: sock.close and return True
Close ==
    /\ pc = "send" /\ cstate = "Connected" /\ payloadWritten
    /\ \/ /\ cstate' = "Closed"
          /\ sendResult' = Some(ReturnValue("try"))
          /\ pc' = "exit"
          /\ UNCHANGED <<sendRaised, uncaught, exitCode>>
       \/ \E exc \in CloseErrors : SendFails(exc)
    /\ UNCHANGED <<env, fields, psResult, terminal_info, state, sendCalls,
                   socketsCreated, connectAttempts, payloadWritten, wire>>

\* main, line 123: sys.exit(0)
Exit ==
    /\ pc = "exit"
    /\ SysExit0
    /\ UNCHANGED <<env, fields, psResult, terminal_info, state, sendCalls, client>>

Next ==
    \/ ReadInput
    \/ ResolveIdentity
    \/ BuildState
    \/ SocketCreate
    \/ Connect
    \/ SendAll
    \/ Close
    \/ Exit

Spec == Init /\ [][Next]_vars

\* connect and sendall carry the 2 second timeout, so each step of
\* send_to_app completes or fails
FairSpec ==
    /\ Init /\ [][Next]_vars
    /\ WF_vars(SocketCreate) /\ WF_vars(Connect) /\ WF_vars(SendAll) /\ WF_vars(Close)

TypeOK ==
    /\ pc \in {"start", "resolve", "build", "send", "exit", "done"}
    /\ cstate \in ClientStates
    /\ sendCalls \in 0..1

(***************************************************************************)
(* Properties.                                                             *)
(***************************************************************************)
Terminated == pc = "done"
Record == state[1]
Identity == terminal_info[1]

\* C1: every terminated invocation has exit code 0, whatever the payload,
\* the outcome of the ps query and the outcome of delivery.
C1_AlwaysExitsZero == Terminated => exitCode = Some(0) /\ uncaught = None

MalformedForms == {"text_not_json", "empty", "invalid_bytes"}

\* C2: a malformed payload ends in exit code 0 with no call of send_to_app,
\* no socket, no connect, no byte written and no run of the resolver.
C2_MalformedExitsZeroNoDelivery ==
    (Terminated /\ stdin.form \in MalformedForms) =>
        /\ exitCode = Some(0)
        /\ sendCalls = 0 /\ socketsCreated = 0 /\ connectAttempts = 0
        /\ wire = <<>>
        /\ psResult = None

\* C3: a failure inside send_to_app is swallowed: nothing escapes to the
\* caller, the call returns False and control is back in main, and a call
\* creates at most one socket and makes at most one connect attempt.
C3_FailureSwallowed ==
    /\ sendRaised = None
    /\ cstate = "Failed" => sendResult = Some(FALSE) /\ pc \in {"exit", "done"}
    /\ socketsCreated <= 1 /\ connectAttempts <= 1

\* a connect attempt failed, send_to_app returned False, main exited 0
C3_Witness ==
    /\ cstate = "Failed" /\ connectAttempts = 1 /\ ~payloadWritten /\ wire = <<>>
    /\ sendResult = Some(FALSE) /\ Terminated /\ exitCode = Some(0)

\* the table of status by event kind
StatusTable(kind) ==
    CASE kind = "SessionStart" -> "started"
      [] kind = "SessionEnd" -> "ended"
      [] kind = "Stop" -> "idle"
      [] OTHER -> "active"

\* C4: the record handed to delivery carries a status, and it is the one
\* the table gives for the event kind, whatever the other inputs, the
\* identity and the delivery outcome.
C4_StatusByEventKind ==
    state # None => "status" \in DOMAIN Record /\ Record.status = StatusTable(fields[1].event)

\* a Stop event whose record says idle and whose delivery failed
C4_Witness ==
    /\ state # None /\ fields[1].event = "Stop" /\ Record.status = "idle"
    /\ sendResult = Some(FALSE)

\* the failures of the ps query the claim lists
QueryFailed(ps) ==
    \/ ps.outcome # "completed"
    \/ ps.returncode # 0
    \/ Len(StripSplitLines(ps.stdout)) <= 1
    \/ LET parts == SplitMax(StripSplitLines(ps.stdout)[2], 3)
       IN Len(parts) > 1 /\ ~IsIntText(parts[2][1])

\* C5: get_terminal_pid never raises; when the ps query fails it returns
\* the hook's parent pid with ppid None and tty None.
C5_ResolverNeverRaises ==
    (psResult # None /\ QueryFailed(psResult[1])) =>
        terminal_info # None /\ Identity = Fallback(hookPpid)

\* C6: an invocation whose payload is a JSON object builds one record and
\* calls send_to_app once; the call opens at most one connection, and what
\* a successful call wrote is the document followed by one newline.
C6_ExactlyOneDelivery ==
    (Terminated /\ stdin.form = "json_object") =>
        /\ state # None /\ sendCalls = 1
        /\ socketsCreated <= 1 /\ connectAttempts <= 1
        /\ sendResult = Some(TRUE) => wire = Encode(Record)

ClientEdges ==
    {<<"NotCalled", "Idle">>, <<"Idle", "Connecting">>, <<"Connecting", "Connected">>,
     <<"Connected", "Closed">>, <<"Idle", "Failed">>, <<"Connecting", "Failed">>,
     <<"Connected", "Failed">>}

ClientTerminal == {"Closed", "Failed"}

\* C7: the delivery client moves only along Idle -> Connecting -> Connected
\* -> Closed or to Failed, nothing leaves Closed or Failed, the step after
\* the full write is the close, every call reaches Closed or Failed, and
\* the call returned True exactly in Closed and False exactly in Failed.
C7_Lifecycle ==
    /\ [][cstate' # cstate => <<cstate, cstate'>> \in ClientEdges]_vars
    /\ [][(cstate = "Connected" /\ payloadWritten) => cstate' \in ClientTerminal]_vars
    /\ [](cstate = "Idle" => <>(cstate \in ClientTerminal))
    /\ []((sendResult = Some(TRUE)) <=> (cstate = "Closed"))
    /\ []((sendResult = Some(FALSE)) <=> (cstate = "Failed"))

\* a call that connected, wrote the whole payload, closed and returned True
C7_Witness ==
    /\ cstate = "Closed" /\ sendResult = Some(TRUE)
    /\ payloadWritten /\ wire = Encode(Record)

\* C8: the record has a tool key exactly for PreToolUse and PostToolUse, and
\* then it is the payload's tool_name; it has a user_input key exactly for
\* UserPromptSubmit, and then it is true.
C8_ExtraFieldsByEventKind ==
    state # None =>
        /\ ("tool" \in DOMAIN Record) <=> (fields[1].event \in {"PreToolUse", "PostToolUse"})
        /\ ("tool" \in DOMAIN Record) => Record.tool = fields[1].tool_name
        /\ ("user_input" \in DOMAIN Record) <=> (fields[1].event = "UserPromptSubmit")
        /\ ("user_input" \in DOMAIN Record) => Record.user_input = TRUE

\* a payload of an unrecognized kind that carries a tool_name: no tool key
C8_Witness ==
    /\ state # None /\ fields[1].event = "Notification"
    /\ fields[1].tool_name = Some("Bash")
    /\ "tool" \notin DOMAIN Record /\ "user_input" \notin DOMAIN Record

\* the parts of the data line of a ps run that returned one
DataLine(ps) == SplitMax(StripSplitLines(ps.stdout)[2], 3)
ReturnedDataLine(ps) ==
    ps.outcome = "completed" /\ ps.returncode = 0 /\ Len(StripSplitLines(ps.stdout)) > 1

\* C9 as stated: whenever ps exits 0 with a data line, each of ppid and tty that
\* its own column yields is kept, and only a field whose column is missing
\* or unparsable is None.
C9_FieldByField ==
    (terminal_info # None /\ ReturnedDataLine(psResult[1])) =>
        LET parts == DataLine(psResult[1]) IN
        /\ Identity.ppid = IF Len(parts) > 1 /\ IsIntText(parts[2][1])
                           THEN Some(ParseInt(parts[2][1])) ELSE None
        /\ Identity.tty = IF Len(parts) > 2 THEN Some(parts[3][1]) ELSE None

\* C9 amended: when ps exits 0 with a data line whose parent-pid column is
\* missing or an integer, each of ppid and tty whose column is present is
\* kept and only the missing one is None; when the parent-pid column is not
\* an integer, ppid and tty are both None.
C9_FieldByFieldUnlessPpidUnparsable ==
    (terminal_info # None /\ ReturnedDataLine(psResult[1])) =>
        LET parts == DataLine(psResult[1]) IN
        IF Len(parts) > 1 /\ ~IsIntText(parts[2][1])
        THEN Identity.ppid = None /\ Identity.tty = None
        ELSE /\ Identity.ppid = IF Len(parts) > 1 THEN Some(ParseInt(parts[2][1])) ELSE None
             /\ Identity.tty = IF Len(parts) > 2 THEN Some(parts[3][1]) ELSE None

\* a data line with a parent pid and no tty column: ppid kept, tty None
C9_Witness ==
    /\ terminal_info # None /\ psResult[1].outcome = "completed"
    /\ psResult[1].stdout = <<Header, <<"4242", "1">>>>
    /\ Identity.ppid = Some(1) /\ Identity.tty = None

\* C10: the record's tty is the terminal path of standard input when the
\* lookup yields one, else the identity's tty; it is None only when both
\* are absent; pid and ppid are the identity's.
C10_TtyOverride ==
    state # None =>
        /\ ttyLookup.exc = None => Record.tty = Some(ttyLookup.path)
        /\ ttyLookup.exc # None => Record.tty = Identity.tty
        /\ (Record.tty = None) <=> (ttyLookup.exc # None /\ Identity.tty = None)
        /\ Record.pid = Identity.pid /\ Record.ppid = Identity.ppid

\* the lookup yields a path and the identity another tty: the path wins
C10_Witness ==
    /\ state # None /\ ttyLookup.exc = None
    /\ Identity.tty = Some("ttys001") /\ Identity.ppid = Some(1)
    /\ Record.tty = Some("/dev/ttys003") /\ Record.ppid = Some(1)

====
